---- MODULE Spec2Model ----
(***************************************************************************)
(* Time-series forecasting engine and model store of the dashboard:        *)
(*   - TimeSeriesMLP.forecast and TimeSeriesMLP.hyperparameterTuning       *)
(*     (src/src/ml/forecastModel.ts)                                       *)
(*   - saveModelToStorage, loadModelFromStorage, getBestModelForItem,      *)
(*     deleteModelFromStorage, exportModelToFile, importModelFromFile      *)
(*     (src/src/api/modelService.ts)                                       *)
(*                                                                         *)
(* JavaScript numbers are modelled as tagged values: a finite number is    *)
(* [k |-> "num", v |-> n], and NaN, +Infinity, -Infinity have their own    *)
(* tags.  Normalized values are fixed-point, in units of 1/Scale.          *)
(***************************************************************************)
EXTENDS Integers, Sequences, FiniteSets, TLC

\* ------------------------------------------------------------------ bounds
Scale == 2
MaxHorizon == 2
MaxWindow == 2
MaxGrid == 3
MaxClock == 1
MaxCalls == 3
MaxRecords == 3

\* ------------------------------------------------------- JavaScript numbers
Num(n) == [k |-> "num", v |-> n]
NaN == [k |-> "nan", v |-> 0]
PosInf == [k |-> "inf", v |-> 0]
NegInf == [k |-> "ninf", v |-> 0]

IsNum(x) == x.k = "num"

\* a < b on JavaScript numbers: false as soon as one side is NaN.
Less(a, b) ==
  CASE a.k = "nan" \/ b.k = "nan" -> FALSE
    [] a.k = "ninf" -> b.k # "ninf"
    [] a.k = "inf" -> FALSE
    [] b.k = "inf" -> TRUE
    [] b.k = "ninf" -> FALSE
    [] OTHER -> a.v < b.v

\* x || 0 for an optional number x (<<>> is undefined): undefined, NaN and 0
\* give 0.
OrZero(x) ==
  IF x = <<>> THEN Num(0)
  ELSE IF x[1].k = "nan" THEN Num(0) ELSE x[1]

\* Math.round on a fixed-point value x (units of 1/Scale): floor(x + 1/2).
\* NaN and the infinities are returned as they are.
MathRound(x) ==
  IF IsNum(x) THEN Num((2 * x.v + Scale) \div (2 * Scale)) ELSE x

\* Math.max(0, x): NaN if x is NaN, 0 for -Infinity and negatives.
MathMaxZero(x) ==
  CASE x.k = "nan" -> NaN
    [] x.k = "inf" -> PosInf
    [] x.k = "ninf" -> Num(0)
    [] OTHER -> IF x.v < 0 THEN Num(0) ELSE x

\* denormalizeData of one normalized value p (units of 1/Scale) with the bounds
\* (min, max); the result is in units of 1/Scale of the original scale.  The
\* degenerate case min = max returns min for every input.
denormalizeData(p, min, max) ==
  IF min = max THEN Num(min * Scale)
  ELSE CASE p.k = "num" -> Num(p.v * (max - min) + min * Scale)
         [] p.k = "nan" -> NaN
         [] p.k = "inf" -> PosInf
         [] OTHER -> NegInf

\* ---------------------------------------------------------------- variables
VARIABLES
  \* TimeSeriesMLP instance used by forecast
  model,                \* TRUE when this.model is not null
  isTrained,            \* this.isTrained
  normalizationParams,  \* <<>> for null, <<[min, max]>> otherwise
  lastKnownValues,      \* this.lastKnownValues, normalized fixed-point values
  windowSize,           \* this.config.windowSize
  \* one call of forecast(horizon, startYear)
  fpc,                  \* "idle", "loop", "done", "error"
  horizon,
  startYear,
  fi,                   \* the loop counter i
  currentWindow,
  forecasts,
  predicted,            \* history: the raw predictedValue of every step
  \* one call of hyperparameterTuning(data, paramGrid)
  seriesLen,            \* data.length
  paramGrid,
  tpc,                  \* "idle", "loop", "train", "dispose", "done", "failed"
  ti,                   \* the loop counter i
  tconfig,              \* config of the candidate being trained
  bestMetrics,          \* <<>> for null, <<metrics>> otherwise
  bestConfig,           \* <<>> for null, <<config>> otherwise
  scored,               \* history: the outcome of every candidate trained
  \* the model store and the calls of modelService in flight
  now,                  \* Date.now()
  metadataStore,        \* localStorage['ml_models_metadata'], parsed
  blobStore,            \* IndexedDB: modelStorageKey -> weight bytes
  files,                \* bundle files the user holds (downloads included)
  tasks,                \* the asynchronous calls, by slot
  ncalls,               \* calls started so far
  bestQuery,            \* the last getBestModelForItem call and its result
  \* the caller's series, the networks alive and the calls made on an instance
  data,                 \* the array the caller passes to train and to the search
  disposed,             \* history: dispose() has been called on the instance
  trainPc,              \* train on the instance: "idle", "fit", "done", "error"
  trainMetrics,         \* <<>>, or <<metrics>> of the last train that returned
  built,                \* networks built and not disposed: candidate i, 0 = final
  sink,                 \* the onProgress argument: "none", "quiet" or "throws"
  progress,             \* history: the calls made on the progress sink
  spc,                  \* trainModelWithTuning: "idle", "tuning", "finalfit", ...
  \* AuthProvider and ProtectedRoute
  user,                 \* <<>> for null, <<uid>> otherwise
  userProfile,          \* <<>> for null, <<[uid, role]>> otherwise
  loading,
  fetches,              \* the callbacks waiting at an await, each with its user
  nauth,                \* auth events and refreshes so far
  route,                \* the last render of ProtectedRoute and what it returned
  \* values that are not state of the program
  roundTrip,            \* one series put through normalizeData and denormalizeData
  before,               \* history: the instance as it was when train was called
  accuracyOf            \* the validation accuracy each candidate of a search reaches

fvars == <<model, isTrained, normalizationParams, lastKnownValues, windowSize,
           fpc, horizon, startYear, fi, currentWindow, forecasts, predicted>>

tvars == <<seriesLen, paramGrid, tpc, ti, tconfig, bestMetrics, bestConfig, scored>>

svars == <<now, metadataStore, blobStore, files, tasks, ncalls, bestQuery>>

rvars == <<data, disposed, trainPc, trainMetrics, built, sink, progress, spc>>

avars == <<user, userProfile, loading, fetches, nauth, route, roundTrip, before,
           accuracyOf>>

vars == <<fvars, tvars, svars, rvars, avars>>

\* ------------------------------------------------------------------ forecast
\* Values the network may output for one window: any float32, NaN and the
\* infinities included (train never rejects a diverged fit).
Predictions ==
  {Num(n) : n \in (0 - Scale)..(2 * Scale)} \cup {NaN, PosInf, NegInf}

NormValues == {Num(n) : n \in 0..Scale}

StartYears == {2024, 2025}

Bounds == {[min |-> 3, max |-> 3], [min |-> 0, max |-> 5], [min |-> 10, max |-> 13]}

\* A slide that feeds the clamped, rounded value back instead of the raw one.
SlideWindowClamped(w, p, final) == Append(Tail(w), final)

\* The window fed back after a step: the oldest value dropped, the raw
\* prediction appended.
SlideWindow(w, p, final) == Append(Tail(w), p)

ForecastPoint(year, value) == [year |-> year, value |-> value, type |-> "forecast"]

\* The value pushed for a prediction p.
FinalValue(p, np) == MathMaxZero(MathRound(denormalizeData(p, np.min, np.max)))

ForecastCall ==
  /\ fpc = "idle"
  /\ \E h \in 0..MaxHorizon, y \in StartYears :
       /\ horizon' = h
       /\ startYear' = y
       /\ IF ~model \/ ~isTrained \/ normalizationParams = <<>>
          THEN /\ fpc' = "error"
               /\ UNCHANGED <<currentWindow, forecasts>>
          ELSE /\ fpc' = "loop"
               /\ forecasts' = <<>>
               /\ currentWindow' = lastKnownValues
  /\ fi' = 0
  /\ predicted' = <<>>
  /\ UNCHANGED <<model, isTrained, normalizationParams, lastKnownValues, windowSize,
                 tvars, svars, rvars, avars>>

\* A forecast that keeps the slid window as the tail window of the instance.
StoreTail(tail, window) == window

\* currentWindow is a copy ([...this.lastKnownValues]) and the slide assigns the
\* local only: the tail window of the instance after a step.
KeepTail(tail, window) == tail

\* One pass of the loop; predict accepts a window of windowSize values.
ForecastStep ==
  /\ fpc = "loop"
  /\ fi < horizon
  /\ Len(currentWindow) = windowSize
  /\ \E p \in Predictions :
       LET finalValue == FinalValue(p, normalizationParams[1])
           slid == SlideWindow(currentWindow, p, finalValue) IN
       /\ forecasts' = Append(forecasts, ForecastPoint(startYear + fi, finalValue))
       /\ currentWindow' = slid
       /\ lastKnownValues' = KeepTail(lastKnownValues, slid)
       /\ predicted' = Append(predicted, p)
  /\ fi' = fi + 1
  /\ UNCHANGED <<model, isTrained, normalizationParams, windowSize,
                 fpc, horizon, startYear, tvars, svars, rvars, avars>>

\* model.predict throws on a window that has not the input shape of the
\* network: the call rejects.
PredictFails ==
  /\ fpc = "loop"
  /\ fi < horizon
  /\ Len(currentWindow) # windowSize
  /\ fpc' = "failed"
  /\ UNCHANGED <<model, isTrained, normalizationParams, lastKnownValues, windowSize,
                 horizon, startYear, fi, currentWindow, forecasts, predicted,
                 tvars, svars, rvars, avars>>

\* The promise of forecast has settled and the caller has its result: the
\* instance can be called again.
ForecastSettled ==
  /\ fpc \in {"done", "error", "failed"}
  /\ fpc' = "idle"
  /\ UNCHANGED <<model, isTrained, normalizationParams, lastKnownValues, windowSize,
                 horizon, startYear, fi, currentWindow, forecasts, predicted,
                 tvars, svars, rvars, avars>>

ForecastReturn ==
  /\ fpc = "loop"
  /\ fi >= horizon
  /\ fpc' = "done"
  /\ UNCHANGED <<model, isTrained, normalizationParams, lastKnownValues, windowSize,
                 horizon, startYear, fi, currentWindow, forecasts, predicted, tvars, svars, rvars, avars>>

\* -------------------------------------------------------------------- series
\* The years of the series a caller passes, in the order of the array: sorted
\* by year or not.
YearOrders == {<<2001, 2000>>,
               <<2000, 2001, 2002>>,
               <<2002, 2000, 2003, 2001>>,
               <<2000, 2001, 2002, 2003, 2004, 2005>>}

\* TimeSeriesPoint[]: one point per year.
SeriesOf(years) ==
  [n \in DOMAIN years |-> [year |-> years[n], value |-> 5 * ((years[n] - 2000) % 3)]]

Series == {SeriesOf(y) : y \in YearOrders}

\* .sort((a, b) => a.year - b.year) on points of distinct years
SortByYear(d) ==
  LET rank(n) == Cardinality({m \in DOMAIN d : d[m].year < d[n].year}) + 1 IN
  [k \in DOMAIN d |-> d[CHOOSE n \in DOMAIN d : rank(n) = k]]

\* A sort of the array itself: data.sort(...)
TrainSortsInPlace(d) == [caller |-> SortByYear(d), sorted |-> SortByYear(d)]

\* const sortedData = [...data].sort(...): the caller's array as train leaves
\* it, and the sorted copy train works on.
TrainSorts(d) == [caller |-> d, sorted |-> SortByYear(d)]

MinOf(values) == CHOOSE x \in {values[n] : n \in DOMAIN values} :
                   \A n \in DOMAIN values : x <= values[n]

MaxOf(values) == CHOOSE x \in {values[n] : n \in DOMAIN values} :
                   \A n \in DOMAIN values : x >= values[n]

\* A normalizeData that puts the points of a constant series in the middle of
\* the range instead of at 0.
normalizeDataMid(values) ==
  LET lo == MinOf(values)
      hi == MaxOf(values) IN
  [normalized |-> [n \in DOMAIN values |->
                     IF hi = lo THEN Num(Scale \div 2)
                     ELSE Num(((values[n] - lo) * Scale) \div (hi - lo))],
   min |-> lo, max |-> hi]

\* normalizeData: min-max scaling to [0, 1], in units of 1/Scale; 0 for every
\* point when min = max.
normalizeData(values) ==
  LET lo == MinOf(values)
      hi == MaxOf(values) IN
  [normalized |-> [n \in DOMAIN values |->
                     IF hi = lo THEN Num(0)
                     ELSE Num(((values[n] - lo) * Scale) \div (hi - lo))],
   min |-> lo, max |-> hi]

\* A slice from the front: normalized.slice(0, n)
SliceFirst(s, n) == SubSeq(s, 1, IF Len(s) > n THEN n ELSE Len(s))

\* normalized.slice(-n)
SliceLast(s, n) == SubSeq(s, IF Len(s) > n THEN Len(s) - n + 1 ELSE 1, Len(s))

\* The members of class TimeSeriesMLP: a call of any other name on an instance
\* throws a TypeError.
ClassMembers == {"buildModel", "train", "forecast", "hyperparameterTuning",
                 "saveModel", "loadModel", "isReady", "getConfig", "dispose"}

\* ------------------------------------------------------ hyperparameterTuning
\* this.config of the instance hyperparameterTuning is called on (the defaults
\* of the constructor).
DefaultConfig == [windowSize |-> 5, epochs |-> 100, activation |-> "relu"]

\* Entries a grid is made of: each overrides some fields of the configuration.
GridEntries == {[windowSize |-> 3, activation |-> "relu"],
                [windowSize |-> 3, activation |-> "elu"],
                [activation |-> "elu"]}

SeriesLens == {4, 6}

\* { ...base, ...part }
Merge(base, part) ==
  [f \in DOMAIN base \cup DOMAIN part |->
     IF f \in DOMAIN part THEN part[f] ELSE base[f]]

\* What model.fit may do: throw, or end with a last-epoch loss and an optional
\* last-epoch val_loss (<<>> is undefined).
FitOutcomes ==
  {[throws |-> TRUE, loss |-> NaN, val |-> <<>>]} \cup
  {[throws |-> FALSE, loss |-> Num(1), val |-> v] :
     v \in {<<>>, <<Num(1)>>, <<Num(2)>>, <<PosInf>>}} \cup
  {[throws |-> FALSE, loss |-> NaN, val |-> <<NaN>>]}

\* createWindowedDataset: the number of (input, target) pairs for a series of
\* len values and window size w.
WindowCount(len, w) == IF len > w THEN len - w ELSE 0

\* train(data) of a fresh instance with configuration cfg: <<>> when it throws,
\* <<metrics>> otherwise.
Train(cfg, len, fit) ==
  IF WindowCount(len, cfg.windowSize) = 0 THEN <<>>
  ELSE IF fit.throws THEN <<>>
  ELSE <<[loss |-> fit.loss, valLoss |-> OrZero(fit.val)]>>

\* A comparison that also replaces the best candidate on an equal loss.
IsBetterOrEqual(metrics, best) ==
  best = <<>> \/ ~Less(best[1].valLoss, metrics.valLoss)

\* A comparison that prefers the higher validation loss.
IsWorse(metrics, best) ==
  best = <<>> \/ Less(best[1].valLoss, metrics.valLoss)

\* !bestMetrics || metrics.valLoss < bestMetrics.valLoss
IsBetter(metrics, best) ==
  best = <<>> \/ Less(metrics.valLoss, best[1].valLoss)

\* A loop that gives up at the first candidate whose training throws.
AfterCandidateAbort(trained) == IF trained = <<>> THEN "failed" ELSE "dispose"

\* Where the loop goes after a candidate's try/catch: on to dispose, whether
\* train returned or threw.
AfterCandidate(trained) == "dispose"

\* train builds the network of instance i once the series gives at least one
\* window: if (!this.model) this.model = this.buildModel()
BuildCandidate(b, i, len, w) == IF WindowCount(len, w) = 0 THEN b ELSE b \cup {i}

\* A dispose that leaves the network alive.
DisposeKeeps(b, i) == b

\* tempModel.dispose(): the network of instance i is released
DisposeCandidate(b, i) == b \ {i}

TuneCall ==
  /\ tpc = "idle"
  /\ tpc' = "loop"
  /\ ti' = 0
  /\ bestMetrics' = <<>>
  /\ bestConfig' = <<>>
  /\ UNCHANGED <<seriesLen, paramGrid, tconfig, scored, fvars, svars, rvars, avars>>

\* const config = {...this.config, ...paramGrid[i]}; new TimeSeriesMLP(config);
\* tempModel.train(data) up to `await this.model.fit(...)`
TuneCandidate ==
  /\ tpc = "loop"
  /\ ti < Len(paramGrid)
  /\ tconfig' = <<Merge(DefaultConfig, paramGrid[ti + 1])>>
  /\ tpc' = "train"
  /\ data' = TrainSorts(data).caller
  /\ built' = BuildCandidate(built, ti + 1, seriesLen,
                             Merge(DefaultConfig, paramGrid[ti + 1]).windowSize)
  /\ UNCHANGED <<seriesLen, paramGrid, ti, bestMetrics, bestConfig, scored, fvars, svars,
                 disposed, trainPc, trainMetrics, sink, progress, spc, avars>>

\* await tempModel.train(data) inside try/catch, and the selection
TuneTrained ==
  /\ tpc = "train"
  /\ \E fit \in FitOutcomes :
       LET trained == Train(tconfig[1], seriesLen, fit) IN
       /\ IF trained # <<>> /\ IsBetter(trained[1], bestMetrics)
          THEN /\ bestMetrics' = trained
               /\ bestConfig' = tconfig
          ELSE UNCHANGED <<bestMetrics, bestConfig>>
       /\ scored' = Append(scored, [config |-> tconfig[1], metrics |-> trained])
       /\ tpc' = AfterCandidate(trained)
  /\ UNCHANGED <<seriesLen, paramGrid, ti, tconfig, fvars, svars, rvars, avars>>

\* tempModel.dispose(); i++
TuneDispose ==
  /\ tpc = "dispose"
  /\ ti' = ti + 1
  /\ tpc' = "loop"
  /\ tconfig' = <<>>
  /\ built' = DisposeCandidate(built, ti + 1)
  /\ UNCHANGED <<seriesLen, paramGrid, bestMetrics, bestConfig, scored, fvars, svars,
                 data, disposed, trainPc, trainMetrics, sink, progress, spc, avars>>

\* the loop is over: throw when nothing was selected, return otherwise
TuneEnd ==
  /\ tpc = "loop"
  /\ ti >= Len(paramGrid)
  /\ tpc' = IF bestConfig = <<>> \/ bestMetrics = <<>> THEN "failed" ELSE "done"
  /\ UNCHANGED <<seriesLen, paramGrid, ti, tconfig, bestMetrics, bestConfig, scored,
                 fvars, svars, rvars, avars>>

\* ------------------------------------------------- train, dispose on an instance
\* train(data) up to `await this.model.fit(...)`: the bounds are assigned
\* before the check of the windows, the tail window and the network after it.
Instance ==
  [model |-> model, isTrained |-> isTrained,
   normalizationParams |-> normalizationParams, lastKnownValues |-> lastKnownValues]

TrainCall ==
  /\ trainPc \in {"idle", "done", "error"}
  /\ fpc # "loop"
  /\ before' = <<Instance>>
  /\ LET sortedData == TrainSorts(data).sorted
         nd == normalizeData([n \in DOMAIN sortedData |-> sortedData[n].value]) IN
     /\ data' = TrainSorts(data).caller
     /\ normalizationParams' = <<[min |-> nd.min, max |-> nd.max]>>
     /\ IF WindowCount(Len(nd.normalized), windowSize) = 0
        THEN /\ trainPc' = "error"
             /\ UNCHANGED <<lastKnownValues, model>>
        ELSE /\ trainPc' = "fit"
             /\ lastKnownValues' = SliceLast(nd.normalized, windowSize)
             /\ model' = TRUE
  /\ UNCHANGED <<isTrained, windowSize, fpc, horizon, startYear, fi, currentWindow,
                 forecasts, predicted, tvars, svars,
                 disposed, trainMetrics, built, sink, progress, spc,
                 user, userProfile, loading, fetches, nauth, route, roundTrip,
                 accuracyOf>>

\* train(data) after the await: fit rejected, or isTrained is set and the
\* metrics of the last epoch are returned, whatever they are.
TrainFit ==
  /\ trainPc = "fit"
  /\ \E fit \in FitOutcomes :
       IF fit.throws
       THEN /\ trainPc' = "error"
            /\ UNCHANGED <<isTrained, trainMetrics>>
       ELSE /\ trainPc' = "done"
            /\ isTrained' = TRUE
            /\ trainMetrics' = <<[loss |-> fit.loss, valLoss |-> OrZero(fit.val)]>>
  /\ UNCHANGED <<model, normalizationParams, lastKnownValues, windowSize, fpc, horizon,
                 startYear, fi, currentWindow, forecasts, predicted, tvars, svars,
                 data, disposed, built, sink, progress, spc, avars>>

\* dispose(), called between the calls on the instance
Dispose ==
  /\ trainPc # "fit"
  /\ fpc # "loop"
  /\ model' = FALSE
  /\ isTrained' = FALSE
  /\ disposed' = TRUE
  /\ UNCHANGED <<normalizationParams, lastKnownValues, windowSize, fpc, horizon,
                 startYear, fi, currentWindow, forecasts, predicted, tvars, svars,
                 data, trainPc, trainMetrics, built, sink, progress, spc, avars>>

\* loadModel(name), called between the calls on the instance: the network
\* stored under the name is loaded and isTrained is set, or tf.loadLayersModel
\* rejects and nothing is assigned.
InstanceLoadModel ==
  /\ trainPc # "fit"
  /\ fpc # "loop"
  /\ \/ /\ model' = TRUE
        /\ isTrained' = TRUE
     \/ UNCHANGED <<model, isTrained>>
  /\ UNCHANGED <<normalizationParams, lastKnownValues, windowSize, fpc, horizon,
                 startYear, fi, currentWindow, forecasts, predicted, tvars, svars,
                 rvars, avars>>

\* isReady()
isReady == isTrained /\ model

\* forecast(horizon, startYear), called between the calls on the instance
InstanceForecast ==
  /\ trainPc # "fit"
  /\ ForecastCall

\* ------------------------------------------------------- trainModelWithTuning
\* const paramGrid: Partial<TrainingConfig>[] = [...]; learning rates in 1/10000
ServiceGrid ==
  <<[windowSize |-> 3, hiddenLayers |-> <<32, 16>>, activation |-> "relu", learningRate |-> 10],
    [windowSize |-> 3, hiddenLayers |-> <<64, 32, 16>>, activation |-> "relu", learningRate |-> 10],
    [windowSize |-> 5, hiddenLayers |-> <<64, 32, 16>>, activation |-> "relu", learningRate |-> 10],
    [windowSize |-> 5, hiddenLayers |-> <<64, 32, 16>>, activation |-> "elu", learningRate |-> 10],
    [windowSize |-> 5, hiddenLayers |-> <<128, 64, 32>>, activation |-> "relu", learningRate |-> 10],
    [windowSize |-> 7, hiddenLayers |-> <<64, 32, 16>>, activation |-> "relu", learningRate |-> 10],
    [windowSize |-> 7, hiddenLayers |-> <<128, 64, 32>>, activation |-> "relu", learningRate |-> 5],
    [windowSize |-> 5, hiddenLayers |-> <<256, 128, 64>>, activation |-> "relu", learningRate |-> 5]>>

\* trainModelWithTuning is called: const tempModel = new TimeSeriesMLP()
ServiceCall ==
  /\ spc = "idle"
  /\ spc' = "tuning"
  /\ UNCHANGED <<fvars, tvars, svars, data, disposed, trainPc, trainMetrics, built, sink,
                 progress, avars>>

\* await tempModel.hyperparameterTuning(data, paramGrid, onProgress)
ServiceTune ==
  /\ spc = "tuning"
  /\ TuneCall

\* the search threw: trainModelWithTuning throws
ServiceTuneFailed ==
  /\ spc = "tuning"
  /\ tpc = "failed"
  /\ spc' = "error"
  /\ UNCHANGED <<fvars, tvars, svars, data, disposed, trainPc, trainMetrics, built, sink,
                 progress, avars>>

\* tempModel.dispose(); const finalModel = new TimeSeriesMLP(bestConfig);
\* finalModel.train(data) up to the fit
ServiceFinalTrain ==
  /\ spc = "tuning"
  /\ tpc = "done"
  /\ data' = TrainSorts(data).caller
  /\ built' = BuildCandidate(built, 0, seriesLen, bestConfig[1].windowSize)
  /\ spc' = IF WindowCount(seriesLen, bestConfig[1].windowSize) = 0
            THEN "error" ELSE "finalfit"
  /\ UNCHANGED <<fvars, tvars, svars, disposed, trainPc, trainMetrics, sink, progress, avars>>

\* finalModel.train(data) after the fit, then finalModel.getModel(): train
\* throws, or the call of a method the class does not have throws.  Nothing
\* between the train and the throw disposes finalModel.
ServiceFinalFit ==
  /\ spc = "finalfit"
  /\ \E fit \in FitOutcomes :
       /\ spc' = IF fit.throws THEN "error"
                 ELSE IF "getModel" \in ClassMembers THEN "state" ELSE "error"
       /\ trainMetrics' = Train(bestConfig[1], seriesLen, fit)
  /\ UNCHANGED <<fvars, tvars, svars, data, disposed, trainPc, built, sink,
                 progress, avars>>

\* --------------------------------------------------------------- model store
\* Math.random().toString(36).substr(2, 9)
RandomSuffixes == {"a", "b"}

\* `model_${Date.now()}_${random}` and `model_imported_${Date.now()}_${random}`
NewId(prefix, t, r) == [prefix |-> prefix, time |-> t, rand |-> r]

\* `tfjs_model_${modelId}`
KeyOf(id) == <<"tfjs_model", id>>

\* An id that no call generates.
GhostId == NewId("model", 0, "none")

\* What Date.now() may return at a read: the clock does not run backwards.
ClockReads == {t \in {now, now + 1} : t <= MaxClock}

\* JSON.stringify writes NaN and the infinities as null.
Null == [k |-> "null", v |-> 0]

JsonNumber(x) == IF IsNum(x) THEN x ELSE Null

JsonOptional(x) == IF x = <<>> THEN <<>> ELSE <<JsonNumber(x[1])>>

JsonRecord(m) ==
  [m EXCEPT !.metrics = [loss |-> JsonNumber(@.loss),
                         valLoss |-> JsonNumber(@.valLoss),
                         accuracy |-> JsonOptional(@.accuracy)],
            !.lastKnownValues = [n \in DOMAIN @ |-> JsonNumber(@[n])]]

\* JSON.parse(JSON.stringify(list)): what getAllModels reads back after setItem
Json(list) == [n \in DOMAIN list |-> JsonRecord(list[n])]

\* The modelData and the network passed to saveModelToStorage.
PersistInputs ==
  {[weights |-> <<0, 255>>,
    data |-> [name |-> "model_destination_USA",
              displayName |-> [text |-> "USA", imported |-> 0],
              dataType |-> "destination", selectedItem |-> "USA",
              config |-> DefaultConfig,
              metrics |-> [loss |-> NaN, valLoss |-> Num(0), accuracy |-> <<>>],
              normalizationParams |-> [min |-> 0, max |-> 5],
              lastKnownValues |-> <<Num(0), Num(1), Num(2), Num(1), Num(0)>>]]}

\* const savedModel: SavedModel = {...}
SavedModel(id, modelData, t) ==
  [id |-> id, name |-> modelData.name, displayName |-> modelData.displayName,
   dataType |-> modelData.dataType, selectedItem |-> modelData.selectedItem,
   config |-> modelData.config, metrics |-> modelData.metrics,
   modelStorageKey |-> KeyOf(id),
   normalizationParams |-> modelData.normalizationParams,
   lastKnownValues |-> modelData.lastKnownValues,
   createdAt |-> t, lastUsed |-> <<>>]

\* `${displayName} (Imported)`
MarkImported(d) == [d EXCEPT !.imported = @ + 1]

\* const newMetadata: SavedModel = {...importPackage.metadata, ...}
NewMetadata(metadata, id, t) ==
  [metadata EXCEPT !.id = id, !.modelStorageKey = KeyOf(id), !.createdAt = t,
                   !.displayName = MarkImported(@), !.lastUsed = <<>>]

\* Array.from(new Uint8Array(weightData)): the bytes of the buffer
ToBytes(w) == w

\* new Uint8Array(list).buffer: every element is taken modulo 256
FromBytes(list) == [n \in DOMAIN list |-> list[n] % 256]

\* const exportPackage = {...}
ExportPackage(metadata, w, t) ==
  [metadata |-> <<metadata>>,
   modelArtifacts |-> <<[weightData |-> ToBytes(w)]>>,
   exportedAt |-> t, version |-> <<"1.0">>]

\* A model trained and saved by another browser.
ForeignModel ==
  [weights |-> <<7>>,
   data |-> [name |-> "model_age_20-24",
             displayName |-> [text |-> "20-24", imported |-> 0],
             dataType |-> "age", selectedItem |-> "20-24",
             config |-> Merge(DefaultConfig, [windowSize |-> 3, activation |-> "elu"]),
             metrics |-> [loss |-> Num(1), valLoss |-> Num(1), accuracy |-> <<Num(95)>>],
             normalizationParams |-> [min |-> 10, max |-> 13],
             lastKnownValues |-> <<Num(2), Num(0), Num(1)>>]]

\* Files the user holds at the start: a bundle exported by another browser
\* and a file that is no bundle.
ExternalFiles ==
  {ExportPackage(JsonRecord(SavedModel(NewId("model", 0, "a"), ForeignModel.data, 0)),
                 ForeignModel.weights, 0),
   [metadata |-> <<>>, modelArtifacts |-> <<>>, exportedAt |-> 0, version |-> <<>>]}

\* allModels.find(m => m.id === id): <<>> when there is none
Find(list, id) ==
  LET S == {n \in 1..Len(list) : list[n].id = id} IN
  IF S = {} THEN <<>>
  ELSE <<list[CHOOSE n \in S : \A m \in S : n <= m]>>

\* allModels.filter(m => m.id !== modelId)
Filter(list, id) == SelectSeq(list, LAMBDA m : m.id # id)

\* allModels.push(record)
Push(list, record) == Append(list, record)

\* An update that stamps every record of the list.
updateModelLastUsedAll(list, id, t) ==
  IF Find(list, id) = <<>> THEN list
  ELSE Json([n \in DOMAIN list |-> [list[n] EXCEPT !.lastUsed = <<t>>]])

\* updateModelLastUsed: the first record with that id gets lastUsed, and the
\* list is written back; nothing is written when there is none.
updateModelLastUsed(list, id, t) ==
  LET S == {n \in 1..Len(list) : list[n].id = id} IN
  IF S = {} THEN list
  ELSE Json([list EXCEPT ![CHOOSE n \in S : \A m \in S : n <= m].lastUsed = <<t>>])

\* IndexedDB as a set of (key, weights) entries, one per key
PutBlob(store, key, w) ==
  {b \in store : b.key # key} \cup {[key |-> key, weights |-> w]}

RemoveBlob(store, key) == {b \in store : b.key # key}

HasBlob(store, key) == \E b \in store : b.key = key

GetBlob(store, key) == (CHOOSE b \in store : b.key = key).weights

IdleTask ==
  [op |-> "none", pc |-> "idle", id |-> GhostId, snap |-> <<>>, rec |-> <<>>,
   weights |-> <<>>]

Free(s) == tasks[s].pc \in {"idle", "ok", "error"}

\* The slots of the calls in flight: two calls may overlap at their awaits.
Slots == {1, 2}

\* A call starts in the first slot that holds no call in flight.
Start(task) ==
  /\ ncalls < MaxCalls
  /\ \E s \in Slots :
       /\ Free(s)
       /\ \A q \in Slots : q < s => ~Free(q)
       /\ tasks' = [tasks EXCEPT ![s] = task]
  /\ ncalls' = ncalls + 1

Step(s, pc) == tasks' = [tasks EXCEPT ![s].pc = pc]

\* The call in slot s returns ("ok") or throws ("error"): its locals are gone.
Finish(s, pc) ==
  tasks' = [tasks EXCEPT ![s] = [IdleTask EXCEPT !.op = tasks[s].op, !.pc = pc,
                                                 !.id = tasks[s].id]]

\* Ids a caller may pass: those of the stored records, and one that is not in
\* the store.
Targets == {metadataStore[n].id : n \in 1..Len(metadataStore)} \cup {GhostId}

\* saveModelToStorage up to `await model.save(...)`
PersistStart ==
  /\ \E inp \in PersistInputs, t \in ClockReads, r \in RandomSuffixes :
       /\ now' = t
       /\ Start([op |-> "save", pc |-> "saving", id |-> NewId("model", t, r),
                 snap |-> <<>>, rec |-> <<inp.data>>, weights |-> inp.weights])
  /\ UNCHANGED <<metadataStore, blobStore, files, bestQuery, fvars, tvars, rvars, avars>>

\* model.save(`indexeddb://${indexedDBKey}`) writes the blob
SaveBlob(s) ==
  /\ tasks[s].op \in {"save", "import"}
  /\ tasks[s].pc = "saving"
  /\ blobStore' = PutBlob(blobStore, KeyOf(tasks[s].id), tasks[s].weights)
  /\ Step(s, "saved")
  /\ UNCHANGED <<now, metadataStore, files, ncalls, bestQuery, fvars, tvars, rvars, avars>>

\* model.save rejects: the call throws
SaveFails(s) ==
  /\ tasks[s].op \in {"save", "import"}
  /\ tasks[s].pc = "saving"
  /\ Finish(s, "error")
  /\ UNCHANGED <<now, metadataStore, blobStore, files, ncalls, bestQuery, fvars, tvars, rvars, avars>>

\* saveModelToStorage after the await: the metadata is pushed and written
PersistCommit(s) ==
  /\ tasks[s].op = "save"
  /\ tasks[s].pc = "saved"
  /\ metadataStore' =
       Json(Push(metadataStore, SavedModel(tasks[s].id, tasks[s].rec[1], now)))
  /\ Finish(s, "ok")
  /\ UNCHANGED <<now, blobStore, files, ncalls, bestQuery, fvars, tvars, rvars, avars>>

\* importModelFromFile up to `await model.save(...)`
ImportStart ==
  /\ \E f \in files, t \in ClockReads, r \in RandomSuffixes :
       IF f.metadata = <<>> \/ f.modelArtifacts = <<>>
       THEN /\ t = now
            /\ r = CHOOSE x \in RandomSuffixes : TRUE
            /\ now' = now
            /\ Start([IdleTask EXCEPT !.op = "import", !.pc = "error"])
       ELSE /\ now' = t
            /\ Start([op |-> "import", pc |-> "saving",
                      id |-> NewId("model_imported", t, r),
                      snap |-> <<>>, rec |-> f.metadata,
                      weights |-> FromBytes(f.modelArtifacts[1].weightData)])
  /\ UNCHANGED <<metadataStore, blobStore, files, bestQuery, fvars, tvars, rvars, avars>>

\* importModelFromFile after the awaits: the new metadata is pushed and written
ImportCommit(s) ==
  /\ tasks[s].op = "import"
  /\ tasks[s].pc = "saved"
  /\ metadataStore' =
       Json(Push(metadataStore, NewMetadata(tasks[s].rec[1], tasks[s].id, now)))
  /\ Finish(s, "ok")
  /\ UNCHANGED <<now, blobStore, files, ncalls, bestQuery, fvars, tvars, rvars, avars>>

\* deleteModelFromStorage up to `await tf.io.removeModel(...)`
DeleteStart ==
  /\ \E id \in Targets :
       LET found == Find(metadataStore, id) IN
       IF found = <<>>
       THEN Start([IdleTask EXCEPT !.op = "delete", !.pc = "error", !.id = id])
       ELSE Start([op |-> "delete", pc |-> "removing", id |-> id,
                   snap |-> metadataStore, rec |-> found, weights |-> <<>>])
  /\ UNCHANGED <<now, metadataStore, blobStore, files, bestQuery, fvars, tvars, rvars, avars>>

\* tf.io.removeModel: removes the blob, or throws (caught) when there is none
DeleteRemove(s) ==
  /\ tasks[s].op = "delete"
  /\ tasks[s].pc = "removing"
  /\ blobStore' = RemoveBlob(blobStore, tasks[s].rec[1].modelStorageKey)
  /\ Step(s, "removed")
  /\ UNCHANGED <<now, metadataStore, files, ncalls, bestQuery, fvars, tvars, rvars, avars>>

\* The list deleteModelFromStorage writes back: the list it read at its start
\* without the record.
DeleteWrite(snap, current, id) == Filter(snap, id)

\* deleteModelFromStorage after the await
DeleteCommit(s) ==
  /\ tasks[s].op = "delete"
  /\ tasks[s].pc = "removed"
  /\ metadataStore' = Json(DeleteWrite(tasks[s].snap, metadataStore, tasks[s].id))
  /\ Finish(s, "ok")
  /\ UNCHANGED <<now, blobStore, files, ncalls, bestQuery, fvars, tvars, rvars, avars>>

\* loadModelFromStorage up to `await tf.loadLayersModel(...)`
LoadStart ==
  /\ \E id \in Targets :
       LET found == Find(metadataStore, id) IN
       IF found = <<>>
       THEN Start([IdleTask EXCEPT !.op = "load", !.pc = "error", !.id = id])
       ELSE Start([op |-> "load", pc |-> "loading", id |-> id,
                   snap |-> <<>>, rec |-> found, weights |-> <<>>])
  /\ UNCHANGED <<now, metadataStore, blobStore, files, bestQuery, fvars, tvars, rvars, avars>>

\* tf.loadLayersModel reads the blob, or rejects when it is not there
LoadBlob(s) ==
  /\ tasks[s].op = "load"
  /\ tasks[s].pc = "loading"
  /\ LET key == tasks[s].rec[1].modelStorageKey IN
     IF HasBlob(blobStore, key)
     THEN tasks' = [tasks EXCEPT ![s].pc = "loaded",
                                 ![s].weights = GetBlob(blobStore, key)]
     ELSE Finish(s, "error")
  /\ UNCHANGED <<now, metadataStore, blobStore, files, ncalls, bestQuery, fvars, tvars, rvars, avars>>

\* loadModelFromStorage after the await: updateModelLastUsed(modelId); return
LoadFinish(s) ==
  /\ tasks[s].op = "load"
  /\ tasks[s].pc = "loaded"
  /\ \E t \in ClockReads :
       /\ now' = t
       /\ metadataStore' = updateModelLastUsed(metadataStore, tasks[s].id, t)
  /\ Step(s, "ok")
  /\ UNCHANGED <<blobStore, files, ncalls, bestQuery, fvars, tvars, rvars, avars>>

\* exportModelToFile up to `await tf.loadLayersModel(...)`
ExportStart ==
  /\ \E id \in Targets :
       LET found == Find(metadataStore, id) IN
       IF found = <<>>
       THEN Start([IdleTask EXCEPT !.op = "export", !.pc = "error", !.id = id])
       ELSE Start([op |-> "export", pc |-> "loading", id |-> id,
                   snap |-> <<>>, rec |-> found, weights |-> <<>>])
  /\ UNCHANGED <<now, metadataStore, blobStore, files, bestQuery, fvars, tvars, rvars, avars>>

\* exportModelToFile after the awaits: the package is downloaded as a file
ExportFinish(s) ==
  /\ tasks[s].op = "export"
  /\ tasks[s].pc = "loading"
  /\ LET key == tasks[s].rec[1].modelStorageKey IN
     IF HasBlob(blobStore, key)
     THEN /\ files' = files \cup
                {ExportPackage(tasks[s].rec[1], GetBlob(blobStore, key), now)}
          /\ Finish(s, "ok")
     ELSE /\ Finish(s, "error")
          /\ UNCHANGED files
  /\ UNCHANGED <<now, metadataStore, blobStore, ncalls, bestQuery, fvars, tvars, rvars, avars>>

\* ModelManagementService.loadModel after `await loadModelFromStorage(...)`:
\* a rejection is rethrown; otherwise new TimeSeriesMLP(metadata.config) is
\* constructed and model.setModelState(...) is called on it, a method the class
\* does not have, so the call throws and loadModel rethrows.
LoadModelSettle(s) ==
  /\ tasks[s].op = "load"
  /\ tasks[s].pc \in {"ok", "error"}
  /\ IF tasks[s].pc = "ok"
     THEN /\ windowSize' = tasks[s].rec[1].config.windowSize
          /\ model' = FALSE
          /\ isTrained' = FALSE
          /\ normalizationParams' = <<>>
          /\ lastKnownValues' = <<>>
          /\ tasks' = [tasks EXCEPT ![s] =
               [IdleTask EXCEPT !.op = "loadModel", !.id = tasks[s].id,
                  !.pc = IF "setModelState" \in ClassMembers THEN "ok" ELSE "error"]]
     ELSE /\ tasks' = [tasks EXCEPT ![s] =
               [IdleTask EXCEPT !.op = "loadModel", !.id = tasks[s].id, !.pc = "error"]]
          /\ UNCHANGED <<windowSize, model, isTrained, normalizationParams, lastKnownValues>>
  /\ UNCHANGED <<fpc, horizon, startYear, fi, currentWindow, forecasts, predicted,
                 now, metadataStore, blobStore, files, ncalls, bestQuery, tvars, rvars, avars>>

\* getModelsForItem: allModels.filter(...)
getModelsForItem(list, dataType, selectedItem) ==
  SelectSeq(list, LAMBDA m : m.dataType = dataType /\ m.selectedItem = selectedItem)

\* metrics.accuracy ?? 0: undefined and null give 0
AccuracyOrZero(m) ==
  IF m.metrics.accuracy = <<>> THEN Num(0)
  ELSE IF m.metrics.accuracy[1].k = "null" THEN Num(0) ELSE m.metrics.accuracy[1]

\* A callback that also replaces the best on an equal accuracy.
PickLatest(bestSoFar, current) ==
  IF Less(AccuracyOrZero(current), AccuracyOrZero(bestSoFar)) THEN bestSoFar ELSE current

\* The reduce callback: currentAccuracy > bestAccuracy ? current : best
Pick(bestSoFar, current) ==
  IF Less(AccuracyOrZero(bestSoFar), AccuracyOrZero(current)) THEN current ELSE bestSoFar

\* models.reduce(callback) without an initial value, over models[1..n]
RECURSIVE Reduce(_, _)
Reduce(models, n) ==
  IF n = 1 THEN models[1] ELSE Pick(Reduce(models, n - 1), models[n])

\* getBestModelForItem: <<>> for null
getBestModelForItem(list, dataType, selectedItem) ==
  LET models == getModelsForItem(list, dataType, selectedItem) IN
  IF Len(models) = 0 THEN <<>> ELSE <<Reduce(models, Len(models))>>

Subjects == {[dataType |-> "destination", selectedItem |-> "USA"],
             [dataType |-> "age", selectedItem |-> "USA"],
             [dataType |-> "destination", selectedItem |-> "Japan"]}

Accuracies == {<<>>, <<Num(70)>>, <<Num(80)>>, <<Num(95)>>}

NoQuery == [asked |-> FALSE, subject |-> CHOOSE q \in Subjects : TRUE, result |-> <<>>]

BestQuery ==
  /\ \E q \in Subjects :
       bestQuery' = [asked |-> TRUE, subject |-> q,
                result |-> getBestModelForItem(metadataStore, q.dataType, q.selectedItem)]
  /\ UNCHANGED <<now, metadataStore, blobStore, files, tasks, ncalls, fvars, tvars, rvars, avars>>

\* ------------------------------------------------------------ specifications
FIdle ==
  /\ model = FALSE
  /\ isTrained = FALSE
  /\ normalizationParams = <<>>
  /\ lastKnownValues = <<>>
  /\ windowSize = DefaultConfig.windowSize
  /\ fpc = "off"
  /\ horizon = 0
  /\ startYear = 0
  /\ fi = 0
  /\ currentWindow = <<>>
  /\ forecasts = <<>>
  /\ predicted = <<>>

TIdle ==
  /\ seriesLen = 0
  /\ paramGrid = <<>>
  /\ tpc = "off"
  /\ ti = 0
  /\ tconfig = <<>>
  /\ bestMetrics = <<>>
  /\ bestConfig = <<>>
  /\ scored = <<>>

RIdle ==
  /\ data = <<>>
  /\ disposed = FALSE
  /\ trainPc = "off"
  /\ trainMetrics = <<>>
  /\ built = {}
  /\ sink = "none"
  /\ progress = <<>>
  /\ spc = "off"

AIdle ==
  /\ user = <<>>
  /\ userProfile = <<>>
  /\ loading = TRUE
  /\ fetches = {}
  /\ nauth = 0
  /\ route = <<>>
  /\ roundTrip = <<>>
  /\ before = <<>>
  /\ accuracyOf = <<>>

SIdle ==
  /\ now = 0
  /\ metadataStore = <<>>
  /\ blobStore = {}
  /\ files = {}
  /\ tasks = <<>>
  /\ ncalls = 0
  /\ bestQuery = NoQuery

FInit ==
  /\ AIdle
  /\ TIdle
  /\ SIdle
  /\ RIdle
  /\ windowSize \in 1..MaxWindow
  /\ \E trained \in BOOLEAN :
       /\ model = trained
       /\ isTrained = trained
       /\ IF trained
          THEN /\ normalizationParams \in {<<b>> : b \in Bounds}
               /\ lastKnownValues \in [1..windowSize -> NormValues]
          ELSE /\ normalizationParams = <<>>
               /\ lastKnownValues = <<>>
  /\ fpc = "idle"
  /\ horizon = 0
  /\ startYear = 0
  /\ fi = 0
  /\ currentWindow = <<>>
  /\ forecasts = <<>>
  /\ predicted = <<>>

FNext == ForecastCall \/ ForecastStep \/ ForecastReturn

SpecForecast == FInit /\ [][FNext]_vars

Grids == UNION {[1..n -> GridEntries] : n \in 0..MaxGrid}

\* What the caller passes as onProgress: a sink that returns, or one that
\* throws when it is called.
Sinks == {"quiet", "throws"}

TInit ==
  /\ AIdle
  /\ FIdle
  /\ SIdle
  /\ data \in {d \in Series : Len(d) \in SeriesLens}
  /\ seriesLen = Len(data)
  /\ disposed = FALSE
  /\ trainPc = "off"
  /\ trainMetrics = <<>>
  /\ built = {}
  /\ sink \in Sinks
  /\ progress = <<>>
  /\ spc = "off"
  /\ paramGrid \in Grids
  /\ tpc = "idle"
  /\ ti = 0
  /\ tconfig = <<>>
  /\ bestMetrics = <<>>
  /\ bestConfig = <<>>
  /\ scored = <<>>

TNext == TuneCall \/ TuneCandidate \/ TuneTrained \/ TuneDispose \/ TuneEnd

SpecTuning == TInit /\ [][TNext]_vars

SInit ==
  /\ AIdle
  /\ FIdle
  /\ TIdle
  /\ RIdle
  /\ now = 0
  /\ metadataStore = <<>>
  /\ blobStore = {}
  /\ files = ExternalFiles
  /\ tasks = [s \in Slots |-> IdleTask]
  /\ ncalls = 0
  /\ bestQuery = NoQuery

SNext ==
  \/ PersistStart
  \/ ImportStart
  \/ DeleteStart
  \/ LoadStart
  \/ ExportStart
  \/ \E s \in Slots :
       \/ SaveBlob(s)
       \/ SaveFails(s)
       \/ PersistCommit(s)
       \/ ImportCommit(s)
       \/ DeleteRemove(s)
       \/ DeleteCommit(s)
       \/ LoadBlob(s)
       \/ LoadFinish(s)
       \/ ExportFinish(s)

SpecStore == SInit /\ [][SNext]_vars

\* Records the store may hold for getBestModelForItem: saved for one of the
\* subjects, with or without an accuracy in their metrics.
StoredRecord(n, q, acc) ==
  JsonRecord(SavedModel(NewId("model", n, "a"),
                        [(CHOOSE i \in PersistInputs : TRUE).data EXCEPT
                           !.dataType = q.dataType,
                           !.selectedItem = q.selectedItem,
                           !.metrics = [@ EXCEPT !.accuracy = acc]],
                        n))

BInit ==
  /\ AIdle
  /\ FIdle
  /\ TIdle
  /\ RIdle
  /\ now = 0
  /\ \E len \in 0..MaxRecords :
       \E qs \in [1..len -> Subjects], as \in [1..len -> Accuracies] :
         metadataStore = [n \in 1..len |-> StoredRecord(n, qs[n], as[n])]
  /\ blobStore = {}
  /\ files = {}
  /\ tasks = <<>>
  /\ ncalls = 0
  /\ bestQuery = NoQuery

BNext == BestQuery

SpecBest == BInit /\ [][BNext]_vars

\* One TimeSeriesMLP instance, constructed with a window size, and the calls
\* made on it one after the other.
IInit ==
  /\ AIdle
  /\ TIdle
  /\ SIdle
  /\ windowSize \in 1..MaxWindow
  /\ model = FALSE
  /\ isTrained = FALSE
  /\ normalizationParams = <<>>
  /\ lastKnownValues = <<>>
  /\ fpc = "idle"
  /\ horizon = 0
  /\ startYear = 0
  /\ fi = 0
  /\ currentWindow = <<>>
  /\ forecasts = <<>>
  /\ predicted = <<>>
  /\ data \in Series
  /\ disposed = FALSE
  /\ trainPc = "idle"
  /\ trainMetrics = <<>>
  /\ built = {}
  /\ sink = "none"
  /\ progress = <<>>
  /\ spc = "off"

INext ==
  \/ TrainCall
  \/ TrainFit
  \/ Dispose
  \/ InstanceLoadModel
  \/ InstanceForecast
  \/ ForecastStep
  \/ PredictFails
  \/ ForecastReturn

SpecInstance == IInit /\ [][INext]_vars

\* ModelManagementService.trainModelWithTuning(data, dataType, selectedItem,
\* onProgress)
VInit ==
  /\ AIdle
  /\ FIdle
  /\ SIdle
  /\ data \in {d \in Series : Len(d) \in SeriesLens}
  /\ seriesLen = Len(data)
  /\ paramGrid = ServiceGrid
  /\ tpc = "idle"
  /\ ti = 0
  /\ tconfig = <<>>
  /\ bestMetrics = <<>>
  /\ bestConfig = <<>>
  /\ scored = <<>>
  /\ disposed = FALSE
  /\ trainPc = "off"
  /\ trainMetrics = <<>>
  /\ built = {}
  /\ sink = "quiet"
  /\ progress = <<>>
  /\ spc = "idle"

VNext ==
  \/ ServiceCall
  \/ ServiceTune
  \/ TuneCandidate
  \/ TuneTrained
  \/ TuneDispose
  \/ TuneEnd
  \/ ServiceTuneFailed
  \/ ServiceFinalTrain
  \/ ServiceFinalFit

SpecService == VInit /\ [][VNext]_vars

\* saveModelToStorage and ModelManagementService.loadModel
MInit == SInit

MNext ==
  \/ PersistStart
  \/ LoadStart
  \/ \E s \in Slots :
       \/ SaveBlob(s)
       \/ SaveFails(s)
       \/ PersistCommit(s)
       \/ LoadBlob(s)
       \/ LoadFinish(s)
       \/ LoadModelSettle(s)

SpecManage == MInit /\ [][MNext]_vars

\* The version of a bundle exportModelToFile writes.
Recognised(f) == f.version = <<"1.0">>

\* Bundles of another format version, and bundles that carry no version.
OtherVersionFiles ==
  {[ExportPackage(JsonRecord(SavedModel(NewId("model", 0, "b"), ForeignModel.data, 0)),
                  ForeignModel.weights, 0) EXCEPT !.version = v] :
     v \in {<<>>, <<"2.0">>}}

\* importModelFromFile and exportModelToFile, with bundles of every kind
XInit ==
  /\ AIdle
  /\ FIdle
  /\ TIdle
  /\ RIdle
  /\ now = 0
  /\ metadataStore = <<>>
  /\ blobStore = {}
  /\ files = ExternalFiles \cup OtherVersionFiles
  /\ tasks = [s \in Slots |-> IdleTask]
  /\ ncalls = 0
  /\ bestQuery = NoQuery

XNext ==
  \/ ImportStart
  \/ ExportStart
  \/ \E s \in Slots :
       \/ SaveBlob(s)
       \/ SaveFails(s)
       \/ ImportCommit(s)
       \/ ExportFinish(s)

SpecImport == XInit /\ [][XNext]_vars

\* ------------------------------------------------------------ forecast claims
IsNonNegInteger(x) == IsNum(x) /\ x.v >= 0

LastN(s, n) == SubSeq(s, Len(s) - n + 1, Len(s))

\* C1: a finished forecast(h, y) holds exactly h points, their years are
\* y, y+1, ..., y+h-1 in order, and every value is an integer >= 0, whatever
\* the network predicted.
C1_ForecastPoints ==
  fpc = "done" =>
    /\ Len(forecasts) = horizon
    /\ \A n \in 1..Len(forecasts) :
         /\ forecasts[n].year = startYear + n - 1
         /\ IsNonNegInteger(forecasts[n].value)

Trained(n) == scored[n].metrics # <<>>

\* The candidates that trained successfully with the lowest validation loss.
Lowest ==
  {n \in 1..Len(scored) :
     /\ Trained(n)
     /\ \A m \in 1..Len(scored) :
          Trained(m) => ~Less(scored[m].metrics[1].valLoss, scored[n].metrics[1].valLoss)}

Earliest(S) == CHOOSE n \in S : \A m \in S : n <= m

C4_FailsIffAllFail ==
  tpc \in {"done", "failed"} =>
    /\ Len(scored) = Len(paramGrid)
    /\ (tpc = "failed") <=> (\A n \in 1..Len(scored) : ~Trained(n))

\* C4 witness: the first candidate threw, a later one trained, and the search
\* returned.
C4_Witness ==
  /\ tpc = "done"
  /\ Len(scored) >= 2
  /\ ~Trained(1)
  /\ Trained(2)

\* C4 witness of the failing side: the empty grid fails.
C4_EmptyGridFails == tpc = "failed" /\ paramGrid = <<>>

\* ------------------------------------------------------------ instance claims
\* C12: once dispose() has been called on an instance, every later call of
\* train or forecast on it fails, and the instance is never again trained and
\* ready.
C12_DisposedStaysDisposed ==
  [][disposed =>
       /\ ~(model' /\ isTrained')
       /\ trainPc' # trainPc => trainPc' = "error"
       /\ fpc' # fpc => fpc' = "error"]_vars

\* C16: train on a series of L points with window size W throws for lack of
\* data whenever L <= W + 1, and does not throw for lack of data when
\* L >= W + 2.
C16_InsufficientData ==
  [][(trainPc # "fit" /\ trainPc' \in {"fit", "error"} /\ trainPc' # trainPc) =>
       /\ Len(data) <= windowSize + 1 => trainPc' = "error"
       /\ Len(data) >= windowSize + 2 => trainPc' = "fit"]_vars

\* ------------------------------------------------------ search resource claims
\* C13: when hyperparameterTuning has returned or thrown, no candidate network
\* is alive, and when trainModelWithTuning has returned or thrown, no network
\* built during the call is alive, the final one included.
C13_NothingLeftAlive ==
  /\ tpc \in {"done", "failed"} => built \cap (1..Len(paramGrid)) = {}
  /\ spc \in {"state", "error"} => built = {}

\* C14: at every point of a search at most one candidate network is alive:
\* none between two candidates and at the end, and only the candidate being
\* trained or disposed otherwise, whether the one before trained or failed.
C14_OneCandidateAlive ==
  /\ Cardinality(built) <= 1
  /\ tpc \in {"idle", "loop", "done", "failed"} => built = {}
  /\ tpc \in {"train", "dispose"} => built \subseteq {ti + 1}

\* C14 witness: the network of a candidate is alive while it trains, and the
\* candidate before it had built its network and failed in the fit.
C14_Witness ==
  /\ tpc = "train"
  /\ ti >= 1
  /\ built = {ti + 1}
  /\ ~Trained(ti)
  /\ WindowCount(seriesLen, scored[ti].config.windowSize) > 0

\* C15: a training run whose loss or validation loss is not finite fails
\* instead of returning metrics, so no candidate scored by the search, the
\* best one included, carries a non-finite loss.
C15_NonFiniteLossFails ==
  /\ \A n \in 1..Len(scored) :
       Trained(n) => /\ IsNum(scored[n].metrics[1].loss)
                     /\ IsNum(scored[n].metrics[1].valLoss)
  /\ tpc = "done" => /\ IsNum(bestMetrics[1].loss)
                     /\ IsNum(bestMetrics[1].valLoss)

\* The call the sink is owed for candidate n.
ProgressCall(n) ==
  [index |-> n, total |-> Len(paramGrid), config |-> scored[n].config,
   metrics |-> scored[n].metrics]

\* C17: between two candidates and at the end of a search the progress sink
\* has been called exactly once for each candidate finished so far, in grid
\* order, with (index, total, config, metrics or none).
C17_ProgressPerCandidate ==
  tpc \in {"loop", "done", "failed"} =>
    progress = [n \in 1..Len(scored) |-> ProgressCall(n)]

C20_SeriesNotMutated == [][data' = data]_vars

\* C20 witness: a search over a series that is not sorted by year has
\* returned, with a candidate trained on it.
C20_Witness ==
  /\ tpc = "done"
  /\ SortByYear(data) # data
  /\ \E n \in 1..Len(scored) : Trained(n)

\* --------------------------------------------------------------- store claims
DistinctIds(list) ==
  \A i, j \in 1..Len(list) : i # j => list[i].id # list[j].id

\* The call in slot s takes the step from pc to pc2.
Moves(s, op, pc, pc2) ==
  /\ tasks[s].op = op
  /\ tasks[s].pc = pc
  /\ tasks'[s].op = op
  /\ tasks'[s].pc = pc2

\* A call of op starts in slot s.
Starts(s, op) ==
  /\ ncalls' = ncalls + 1
  /\ Free(s)
  /\ \A q \in Slots : q < s => ~Free(q)
  /\ tasks'[s].op = op

\* The write of a persist or an import only appends one record.
AppendsOne(s) ==
  /\ Len(metadataStore') = Len(metadataStore) + 1
  /\ SubSeq(metadataStore', 1, Len(metadataStore)) = metadataStore
  /\ metadataStore'[Len(metadataStore')].id = tasks[s].id

\* C5 (first half): the records of the metadata store have pairwise distinct
\* ids after any sequence of persist, import and delete operations.
C5_DistinctIds == DistinctIds(metadataStore)

\* C5 (second half): a persist or an import that writes only appends one new
\* record and leaves every record that exists as it is.  This half holds.
C5_AppendOnly ==
  [][\A s \in Slots :
       (Moves(s, "save", "saved", "ok") \/ Moves(s, "import", "saved", "ok"))
         => AppendsOne(s)]_vars

\* C5: both halves, as the claim states them.
C5_UniqueIdsAppendOnly == []C5_DistinctIds /\ C5_AppendOnly

\* C6: a delete removes only the record with its id from the store as the
\* store is when the delete completes: records persisted or imported while
\* the delete was in flight stay, and records another delete removed in
\* between do not come back.
C6_DeleteRemovesOnlyItsRecord ==
  [][\A s \in Slots :
       Moves(s, "delete", "removed", "ok")
         => metadataStore' = Filter(metadataStore, tasks[s].id)]_vars

\* C7: deleting an id that is not in the store completes without error and
\* leaves the store unchanged.
C7_DeleteAbsentIsNoError ==
  [][\A s \in Slots :
       (Starts(s, "delete") /\ Find(metadataStore, tasks'[s].id) = <<>>)
         => /\ tasks'[s].pc # "error"
            /\ metadataStore' = metadataStore
            /\ blobStore' = blobStore]_vars

\* list2 is list with lastUsed of the first record with that id set to t, and
\* nothing else changed.
TouchedOnly(list, list2, id, t) ==
  /\ Len(list2) = Len(list)
  /\ \A n \in 1..Len(list) :
       IF list[n].id = id /\ \A m \in 1..(n - 1) : list[m].id # id
       THEN list2[n] = [list[n] EXCEPT !.lastUsed = <<t>>]
       ELSE list2[n] = list[n]

\* C8: load(id) throws when no record has that id and when the blob of the
\* record cannot be loaded, and a load that throws changes no stored record;
\* a load that returns sets lastUsed of the record with that id and changes
\* no other field of it and no other record.
C8_LoadFrame ==
  [][\A s \in Slots :
       /\ Starts(s, "load")
            => /\ metadataStore' = metadataStore
               /\ Find(metadataStore, tasks'[s].id) = <<>> => tasks'[s].pc = "error"
       /\ (Moves(s, "load", "loading", "loaded") \/ Moves(s, "load", "loading", "error"))
            => /\ metadataStore' = metadataStore
               /\ ~HasBlob(blobStore, tasks[s].rec[1].modelStorageKey)
                    => tasks'[s].pc = "error"
       /\ Moves(s, "load", "loaded", "ok")
            => TouchedOnly(metadataStore, metadataStore', tasks[s].id, now')]_vars

\* C8 witness: a load returned, its record carries lastUsed, and another
\* record of the store carries none.
C8_Witness ==
  \E s \in Slots :
    /\ tasks[s].op = "load"
    /\ tasks[s].pc = "ok"
    /\ \E n, m \in 1..Len(metadataStore) :
         /\ metadataStore[n].id = tasks[s].id
         /\ metadataStore[n].lastUsed # <<>>
         /\ metadataStore[m].id # tasks[s].id
         /\ metadataStore[m].lastUsed = <<>>

\* The blob an import writes under its new storage key holds the weight bytes
\* of the bundle.
ImportKeepsWeights(s) ==
  \E f \in files :
    /\ f.metadata = tasks[s].rec
    /\ f.modelArtifacts[1].weightData = GetBlob(blobStore', KeyOf(tasks[s].id))

\* What the write of an import of the bundle of r keeps: one record is
\* appended, with the config, metrics, normalizationParams and lastKnownValues
\* of r and the display name of r marked as imported.
ImportKeeps(s) ==
  LET r == tasks[s].rec[1]
      new == metadataStore'[Len(metadataStore')] IN
  /\ AppendsOne(s)
  /\ new.config = r.config
  /\ new.metrics = r.metrics
  /\ new.normalizationParams = r.normalizationParams
  /\ new.lastKnownValues = r.lastKnownValues
  /\ new.displayName = MarkImported(r.displayName)
  /\ new.modelStorageKey = KeyOf(tasks[s].id)

\* C10: importing the bundle exported from a record r adds exactly one new
\* record whose id differs from r.id, whose config, metrics,
\* normalizationParams, lastKnownValues and weight data are those of r and
\* whose displayName is that of r marked as imported; r is left unchanged.
C10_ExportImportRoundTrip ==
  [][\A s \in Slots :
       /\ Moves(s, "import", "saving", "saved") => ImportKeepsWeights(s)
       /\ Moves(s, "import", "saved", "ok")
            => /\ ImportKeeps(s)
               /\ metadataStore'[Len(metadataStore')].id # tasks[s].rec[1].id]_vars

\* C10 without the freshness of the id: this much holds.
C10_RoundTripPreserves ==
  [][\A s \in Slots :
       /\ Moves(s, "import", "saving", "saved") => ImportKeepsWeights(s)
       /\ Moves(s, "import", "saved", "ok") => ImportKeeps(s)]_vars

\* ------------------------------------------------------- loadModel and import
\* C11: loadModel(id) of a persisted record whose blob loads returns a
\* regressor that is trained and ready, with the window size, the
\* normalization bounds and the tail window stored in the record.
C11_LoadModelRehydrates ==
  [][\A s \in Slots :
       (tasks[s].op = "load" /\ tasks[s].pc = "ok" /\ tasks'[s].op = "loadModel")
         => /\ tasks'[s].pc = "ok"
            /\ model'
            /\ isTrained'
            /\ windowSize' = tasks[s].rec[1].config.windowSize
            /\ normalizationParams' = <<tasks[s].rec[1].normalizationParams>>
            /\ lastKnownValues' = tasks[s].rec[1].lastKnownValues]_vars

\* C19: an import that gets past its validation reads a bundle of the
\* recognised version: a bundle whose version is missing or another one is
\* rejected with an error, before any blob or record is written.
C19_ImportRejectsOtherVersions ==
  [][\A s \in Slots :
       (Starts(s, "import") /\ tasks'[s].pc # "error")
         => \E f \in files : Recognised(f) /\ f.metadata = tasks'[s].rec]_vars

\* ------------------------------------------------------- best-of-item claims
Matching(q) ==
  {n \in 1..Len(metadataStore) :
     /\ metadataStore[n].dataType = q.dataType
     /\ metadataStore[n].selectedItem = q.selectedItem}

\* C9: getBestModelForItem returns null when no record matches both dataType
\* and selectedItem; otherwise it returns a matching record whose accuracy
\* (0 when the metrics hold none) is at least that of every matching record,
\* the first such record in store order.
C9_BestIsHighestFirst ==
  bestQuery.asked =>
    LET M == Matching(bestQuery.subject) IN
    IF M = {} THEN bestQuery.result = <<>>
    ELSE \E n \in M :
           /\ bestQuery.result = <<metadataStore[n]>>
           /\ \A m \in M :
                /\ ~Less(AccuracyOrZero(metadataStore[n]), AccuracyOrZero(metadataStore[m]))
                /\ m < n => Less(AccuracyOrZero(metadataStore[m]),
                                 AccuracyOrZero(metadataStore[n]))

\* C9 witness: three records of one subject with accuracies 70, 95, 80, and
\* the query returned the one with 95.
C9_Witness ==
  /\ bestQuery.asked
  /\ Len(metadataStore) = 3
  /\ Matching(bestQuery.subject) = {1, 2, 3}
  /\ metadataStore[1].metrics.accuracy = <<Num(70)>>
  /\ metadataStore[2].metrics.accuracy = <<Num(95)>>
  /\ metadataStore[3].metrics.accuracy = <<Num(80)>>
  /\ bestQuery.result = <<metadataStore[2]>>

\* ------------------------------------------- normalizeData / denormalizeData
\* The longest series put through the round trip.
MaxSeries == 3

\* The values a series is made of.
SeriesValues == {0, 3, 5, 10}

RoundTripInputs == UNION {[1..n -> SeriesValues] : n \in 1..MaxSeries}

\* const { normalized, min, max } = normalizeData(values)
Normalize ==
  /\ roundTrip.stage = "values"
  /\ LET r == normalizeData(roundTrip.values) IN
       roundTrip' = [roundTrip EXCEPT !.stage = "normalized",
                                      !.normalized = r.normalized,
                                      !.min = r.min, !.max = r.max]
  /\ UNCHANGED <<user, userProfile, loading, fetches, nauth, route, before,
                 accuracyOf, fvars, tvars, svars, rvars>>

\* denormalizeData(normalized, min, max)
Denormalize ==
  /\ roundTrip.stage = "normalized"
  /\ roundTrip' =
       [roundTrip EXCEPT !.stage = "restored",
                         !.restored = [n \in DOMAIN roundTrip.normalized |->
                                         denormalizeData(roundTrip.normalized[n],
                                                         roundTrip.min,
                                                         roundTrip.max)]]
  /\ UNCHANGED <<user, userProfile, loading, fetches, nauth, route, before,
                 accuracyOf, fvars, tvars, svars, rvars>>

NInit ==
  /\ FIdle /\ TIdle /\ SIdle /\ RIdle
  /\ user = <<>> /\ userProfile = <<>> /\ loading = TRUE /\ fetches = {}
  /\ nauth = 0 /\ route = <<>> /\ before = <<>> /\ accuracyOf = <<>>
  /\ \E v \in RoundTripInputs :
       roundTrip = [stage |-> "values", values |-> v, normalized |-> <<>>,
                    min |-> 0, max |-> 0, restored |-> <<>>]

NNext == Normalize \/ Denormalize

SpecNormalize == NInit /\ [][NNext]_vars

\* ---------------------------------------------------- normalization claims
Constant(values) == \A n \in DOMAIN values : values[n] = values[1]

MaxTested == 2

\* The validation accuracy (in percent) a candidate may reach.  train returns
\* loss, valLoss, mae, mse and trainTime: no accuracy is computed and none
\* takes part in the search, so it is a value of the environment.
CandidateAccuracies == {70, 95}

\* A hyperparameterTuning over a series of six points, with the accuracy each
\* candidate of the grid reaches.
AInit ==
  /\ FIdle /\ SIdle
  /\ user = <<>> /\ userProfile = <<>> /\ loading = TRUE /\ fetches = {}
  /\ nauth = 0 /\ route = <<>> /\ roundTrip = <<>> /\ before = <<>>
  /\ data \in {d \in Series : Len(d) = 6}
  /\ seriesLen = Len(data)
  /\ disposed = FALSE
  /\ trainPc = "off"
  /\ trainMetrics = <<>>
  /\ built = {}
  /\ sink = "quiet"
  /\ progress = <<>>
  /\ spc = "off"
  /\ paramGrid \in {g \in Grids : Len(g) <= MaxTested}
  /\ accuracyOf \in [1..Len(paramGrid) -> CandidateAccuracies]
  /\ tpc = "idle"
  /\ ti = 0
  /\ tconfig = <<>>
  /\ bestMetrics = <<>>
  /\ bestConfig = <<>>
  /\ scored = <<>>

SpecSelect == AInit /\ [][TNext]_vars

\* ------------------------------------------------------- selection claims
\* Candidate n is the one the search returned.
Selected(n) ==
  /\ Trained(n)
  /\ bestConfig = <<scored[n].config>>
  /\ bestMetrics = scored[n].metrics

MaxAuth == 3

Uids == {"a", "b"}

\* The role field a users/{uid} document may hold ("" stands for a missing or
\* empty field).
DocRoles == {"admin", "dataAnalyst", "viewer", "guest", ""}

\* data.role || 'viewer'
RoleOrViewer(r) == IF r = "" THEN "viewer" ELSE r

Profile(uid, role) == [uid |-> uid, role |-> role]

\* The matrix of hasPermission.
permissions ==
  [p \in {"data.read", "data.create", "data.update", "data.delete",
          "data.upload", "ml.train", "ml.forecast", "ml.manageModels",
          "ml.deleteModels", "visualizations.viewAll", "visualizations.export",
          "users.create", "users.read", "users.update", "users.delete",
          "users.manageRoles"} |->
     CASE p = "data.read" -> {"admin", "dataAnalyst", "viewer", "guest"}
       [] p \in {"ml.train", "ml.manageModels", "ml.deleteModels",
                 "visualizations.export"} -> {"admin", "dataAnalyst"}
       [] p \in {"ml.forecast", "visualizations.viewAll"} ->
            {"admin", "dataAnalyst", "viewer"}
       [] OTHER -> {"admin"}]

\* A hasPermission that lets a permission missing from the matrix pass.
hasPermissionOpen(profile, permission) ==
  IF profile = <<>> THEN FALSE
  ELSE IF permission \in DOMAIN permissions
         THEN profile[1].role \in permissions[permission]
         ELSE TRUE

\* permissions[permission]?.includes(userProfile.role) ?? false
hasPermission(profile, permission) ==
  IF profile = <<>> THEN FALSE
  ELSE IF permission \in DOMAIN permissions
         THEN profile[1].role \in permissions[permission]
         ELSE FALSE

\* hasRole(role | role[]): the roles asked for as a set, a single role as the
\* set of that role.
hasRole(profile, roles) ==
  IF profile = <<>> THEN FALSE ELSE profile[1].role \in roles

\* The props of the protected pages: none, a role or a list of roles, a
\* permission of the matrix or one that is not in it, or both.
RouteProps ==
  {[requiredRole |-> r, requiredPermission |-> p] :
     r \in {<<>>}, p \in {<<>>, <<"ml.train">>, <<"data.create">>,
                          <<"data.upload">>, <<"ml.retrain">>}} \cup
  {[requiredRole |-> r, requiredPermission |-> <<>>] :
     r \in {<<{"admin"}>>, <<{"admin", "dataAnalyst"}>>, <<{}>>}} \cup
  {[requiredRole |-> <<{"admin", "dataAnalyst", "viewer"}>>,
    requiredPermission |-> <<"ml.train">>]}

\* What ProtectedRoute returns.
ProtectedRoute(props) ==
  IF loading THEN "loading"
  ELSE IF user = <<>> THEN "redirect"
  ELSE IF props.requiredRole # <<>> /\ ~hasRole(userProfile, props.requiredRole[1])
    THEN "denied"
  ELSE IF /\ props.requiredPermission # <<>>
          /\ ~hasPermission(userProfile, props.requiredPermission[1])
    THEN "denied"
  ELSE "children"

\* A render of a protected page with the current context.
Render ==
  /\ \E props \in RouteProps :
       route' = <<[props |-> props, shown |-> ProtectedRoute(props)]>>
  /\ UNCHANGED <<user, userProfile, loading, fetches, nauth, roundTrip, before,
                 accuracyOf, fvars, tvars, svars, rvars>>

Pending(id, kind, uid, at) == [id |-> id, kind |-> kind, uid |-> uid, at |-> at]

\* The first call of the onAuthStateChanged callback, or a later one after a
\* sign in, a sign out or a sign in as another user, up to its first await.
AuthStateChanged ==
  /\ nauth < MaxAuth
  /\ \E u \in {<<>>} \cup {<<x>> : x \in Uids} :
       /\ u # user \/ nauth = 0
       /\ user' = u
       /\ IF u = <<>>
            THEN /\ userProfile' = <<>>
                 /\ loading' = FALSE
                 /\ UNCHANGED fetches
            ELSE /\ fetches' = fetches \cup {Pending(nauth + 1, "auth", u[1], "getDoc")}
                 /\ UNCHANGED <<userProfile, loading>>
  /\ nauth' = nauth + 1
  /\ route' = <<>>
  /\ UNCHANGED <<roundTrip, before, accuracyOf, fvars, tvars, svars, rvars>>

\* await getDoc(...) of the callback settles: the document exists, does not
\* exist, or the read fails.
GetDocSettles ==
  \E f \in fetches :
    /\ f.kind = "auth" /\ f.at = "getDoc"
    /\ \/ \E r \in DocRoles :
            /\ userProfile' = <<Profile(f.uid, RoleOrViewer(r))>>
            /\ fetches' = (fetches \ {f}) \cup {[f EXCEPT !.at = "setDoc"]}
            /\ UNCHANGED loading
       \/ /\ fetches' = (fetches \ {f}) \cup {[f EXCEPT !.at = "create"]}
          /\ UNCHANGED <<userProfile, loading>>
       \/ /\ userProfile' = <<Profile(f.uid, "viewer")>>
          /\ loading' = FALSE
          /\ fetches' = fetches \ {f}
    /\ route' = <<>>
    /\ UNCHANGED <<user, nauth, roundTrip, before, accuracyOf, fvars, tvars, svars,
                   rvars>>

\* await setDoc(...) settles, for the last login of an existing profile or for
\* a new default profile; a failure sets the default profile in the catch.
SetDocSettles ==
  \E f \in fetches :
    /\ f.kind = "auth" /\ f.at \in {"setDoc", "create"}
    /\ \/ /\ f.at = "setDoc"
          /\ UNCHANGED userProfile
       \/ userProfile' = <<Profile(f.uid, "viewer")>>
    /\ loading' = FALSE
    /\ fetches' = fetches \ {f}
    /\ route' = <<>>
    /\ UNCHANGED <<user, nauth, roundTrip, before, accuracyOf, fvars, tvars, svars,
                   rvars>>

\* refreshUserProfile up to its await: it reads auth.currentUser.
RefreshCall ==
  /\ nauth < MaxAuth
  /\ user # <<>>
  /\ fetches' = fetches \cup {Pending(nauth + 1, "refresh", user[1], "getDoc")}
  /\ nauth' = nauth + 1
  /\ UNCHANGED <<user, userProfile, loading, route, roundTrip, before, accuracyOf,
                 fvars, tvars, svars, rvars>>

\* await getDoc(...) of refreshUserProfile settles.
RefreshSettles ==
  \E f \in fetches :
    /\ f.kind = "refresh"
    /\ \/ \E r \in DocRoles :
            /\ userProfile' = <<Profile(f.uid, RoleOrViewer(r))>>
            /\ route' = <<>>
       \/ UNCHANGED <<userProfile, route>>
    /\ fetches' = fetches \ {f}
    /\ UNCHANGED <<user, loading, nauth, roundTrip, before, accuracyOf, fvars, tvars,
                   svars, rvars>>

UInit ==
  /\ FIdle /\ TIdle /\ SIdle /\ RIdle /\ AIdle

UNext ==
  \/ AuthStateChanged
  \/ GetDocSettles
  \/ SetDocSettles
  \/ RefreshCall
  \/ RefreshSettles
  \/ Render

SpecAuth == UInit /\ [][UNext]_vars

\* ------------------------------------------------------------- auth claims
\* The roles the documentation grants a permission to; none for a permission
\* it does not list.
GrantedTo(p) ==
  CASE p = "ml.train" -> {"admin", "dataAnalyst"}
    [] p \in {"data.create", "data.upload"} -> {"admin"}
    [] OTHER -> {}

\* C23: a protected page shows its children only when loading has finished, a
\* user is signed in and the role of the current profile passes the required
\* role and the required permission: a page requiring ml.train is shown to
\* admin and dataAnalyst only, and a permission outside the matrix to nobody.
C23_RouteGuard ==
  (route # <<>> /\ route[1].shown = "children") =>
    /\ ~loading
    /\ user # <<>>
    /\ route[1].props.requiredRole # <<>> =>
         /\ userProfile # <<>>
         /\ userProfile[1].role \in route[1].props.requiredRole[1]
    /\ route[1].props.requiredPermission # <<>> =>
         /\ userProfile # <<>>
         /\ userProfile[1].role \in GrantedTo(route[1].props.requiredPermission[1])

\* The training page is shown to a data analyst.
C23_Witness ==
  /\ route # <<>>
  /\ route[1].shown = "children"
  /\ route[1].props.requiredPermission = <<"ml.train">>
  /\ userProfile # <<>>
  /\ userProfile[1].role = "dataAnalyst"

\* A page asking for a permission outside the matrix is denied to an admin.
C23_UnknownPermissionDenied ==
  /\ route # <<>>
  /\ route[1].shown = "denied"
  /\ route[1].props.requiredPermission = <<"ml.retrain">>
  /\ userProfile # <<>>
  /\ userProfile[1].role = "admin"

\* C25: a profile that is set belongs to the user who is signed in.
C25_ProfileOfCurrentUser ==
  userProfile # <<>> => (user # <<>> /\ userProfile[1].uid = user[1])

\* ------------------------------------- a store that already holds two models
\* The store after two calls of saveModelToStorage have returned.
TwoSaved ==
  LET inp == CHOOSE i \in PersistInputs : TRUE
      a == NewId("model", 0, "a")
      b == NewId("model", 0, "b") IN
  [metadata |-> Json(Push(Json(Push(<<>>, SavedModel(a, inp.data, 0))),
                          SavedModel(b, inp.data, 0))),
   blobs |-> PutBlob(PutBlob({}, KeyOf(a), inp.weights), KeyOf(b), inp.weights)]

DInit ==
  /\ AIdle
  /\ FIdle
  /\ TIdle
  /\ RIdle
  /\ now = 0
  /\ metadataStore = TwoSaved.metadata
  /\ blobStore = TwoSaved.blobs
  /\ files = ExternalFiles
  /\ tasks = [s \in Slots |-> IdleTask]
  /\ ncalls = 0
  /\ bestQuery = NoQuery

DNext ==
  \/ PersistStart
  \/ ImportStart
  \/ DeleteStart
  \/ \E s \in Slots :
       \/ SaveBlob(s)
       \/ SaveFails(s)
       \/ PersistCommit(s)
       \/ ImportCommit(s)
       \/ DeleteRemove(s)
       \/ DeleteCommit(s)

SpecDelete == DInit /\ [][DNext]_vars

\* C24: when no call is in flight, every record of the metadata list has its
\* blob in the blob store under its modelStorageKey.
C24_EveryRecordHasItsBlob ==
  (\A s \in Slots : Free(s)) =>
    \A n \in 1..Len(metadataStore) :
      HasBlob(blobStore, metadataStore[n].modelStorageKey)

\* ---------------------------------------------- instance claims, continued
\* C26: an instance for which isReady() is true passes the checks forecast
\* makes at its start and has what the loop needs: a network, normalization
\* parameters and a tail window of windowSize values.
C26_ReadyMeansForecastable ==
  isReady =>
    /\ model
    /\ normalizationParams # <<>>
    /\ Len(lastKnownValues) = windowSize

\* C27: a train that throws, at the check of the windows or at the fit, leaves
\* the network, the trained flag, the normalization parameters and the tail
\* window of the instance as they were when it was called.
C27_FailedTrainChangesNothing ==
  [][/\ (trainPc \in {"idle", "done"} /\ trainPc' = "error") => Instance' = Instance
     /\ (trainPc = "fit" /\ trainPc' = "error") => Instance' = before[1]]_vars

\* --------------------------------------------- forecast called more than once
\* A trained instance on which forecast is called again and again.
PInit ==
  /\ AIdle
  /\ TIdle
  /\ SIdle
  /\ RIdle
  /\ windowSize \in 1..MaxWindow
  /\ model = TRUE
  /\ isTrained = TRUE
  /\ normalizationParams = <<[min |-> 0, max |-> 5]>>
  /\ lastKnownValues \in [1..windowSize -> NormValues]
  /\ fpc = "idle"
  /\ horizon = 0
  /\ startYear = 0
  /\ fi = 0
  /\ currentWindow = <<>>
  /\ forecasts = <<>>
  /\ predicted = <<>>

PNext == ForecastCall \/ ForecastStep \/ ForecastReturn \/ ForecastSettled

SpecRepeat == PInit /\ [][PNext]_vars

\* C28: no step of forecast changes the network, the trained flag, the
\* normalization parameters, the tail window or the window size of the
\* instance, and every call starts its rolling window from the tail window,
\* also a call made after an earlier one has slid its window.
C28_ForecastFrame ==
  [][/\ UNCHANGED <<model, isTrained, normalizationParams, lastKnownValues,
                    windowSize>>
     /\ (fpc = "idle" /\ fpc' = "loop") => currentWindow' = lastKnownValues]_vars

\* A call has returned after sliding its window away from the tail window, and
\* the instance is ready for the next call.
C28_Witness ==
  /\ fpc = "idle"
  /\ Len(predicted) = horizon
  /\ horizon >= 1
  /\ currentWindow # lastKnownValues
  /\ Len(lastKnownValues) = windowSize

\* ------------------------------------------------------ train on an instance
\* train and dispose on an instance, without forecasts.
LNext == TrainCall \/ TrainFit \/ Dispose

SpecTrain == IInit /\ [][LNext]_vars

\* The points of the series with exactly n later years.
LaterYears(d, m) == Cardinality({k \in DOMAIN d : d[k].year > d[m].year})

\* C30: after a successful train on more points than the window holds, the
\* tail window has windowSize entries, and its k-th entry is the normalized
\* value of the point with windowSize - k later years in the series, wherever
\* that point stands in the caller's array.
C30_TailIsLatestYears ==
  (trainPc = "done" /\ Len(data) > windowSize) =>
    /\ Len(lastKnownValues) = windowSize
    /\ \A k \in 1..windowSize :
         \E m \in DOMAIN data :
           /\ LaterYears(data, m) = windowSize - k
           /\ lastKnownValues[k] =
                normalizeData([n \in DOMAIN data |-> data[n].value]).normalized[m]

\* A train on an unsorted series of four points has returned.
C30_Witness ==
  /\ trainPc = "done"
  /\ isTrained
  /\ Len(data) = 4
  /\ data # SortByYear(data)
  /\ Len(lastKnownValues) = windowSize
  /\ windowSize = 2

====
